---- MODULE Spec2Model ----
(***************************************************************************)
(* State machine of the aim trainer component App (src/app/src/App.tsx).   *)
(*                                                                         *)
(* The React state cells (gameState, targets, stats, timeLeft, combo,      *)
(* maxCombo), the ref targetIdRef and the browser timers the component     *)
(* arms are the variables.  Every event handler and timer callback is one  *)
(* action; an action includes the re-render it causes and the useEffect    *)
(* cleanups and set-ups that the re-render runs.                           *)
(*                                                                         *)
(* Time is kept relative to the present: an armed timer carries the        *)
(* milliseconds left until it fires (due), a target carries its age        *)
(* Date.now() - createdAt.  Advance lets time pass up to the next timer    *)
(* that is due; a timer that is due fires before time passes further, and  *)
(* timers due at the same instant fire in any order.                       *)
(* Position and size of a target (x, y, size) are random reals that no     *)
(* handler reads back; they are left out of the target record.             *)
(***************************************************************************)
EXTENDS Integers, Sequences, FiniteSets

VARIABLES gameState, targets, stats, timeLeft, combo, maxCombo,
          targetIdRef, timerRef, spawnRef, cleanup, timeouts

vars == <<gameState, targets, stats, timeLeft, combo, maxCombo,
          targetIdRef, timerRef, spawnRef, cleanup, timeouts>>

(* ---------------------------- bounds ----------------------------------- *)
\* clicks (hits + misses) explored per session
MaxClicks == 3
\* start-up timeouts (setTimeout of the initial-spawn effect) pending at once
MaxPending == 5
\* age (ms) up to which a target lying in the collection with no timer armed
\* is followed
MaxIdleAge == 3100

\* hits and misses explored by SpecStats
MaxStatHits == 23
MaxStatMisses == 17

(* ------------------------ program constants ---------------------------- *)
SessionSeconds == 60
ClockPeriod == 1000
CleanupPeriod == 100
TargetLifetime == 3000
InitialSpawns == 3
InitialSpawnGap == 300
BaseScore == 100
ComboBonus == 10
MinSpawnInterval == 400
MaxSpawnInterval == 1000
SpawnAcceleration == 10

(* --------------------------- helpers ----------------------------------- *)
\* a cleared (or never armed) interval
NoTimer == [due |-> -1, period |-> 0]

\* setInterval(cb, period): first fires after period ms
setInterval(period) == [due |-> period, period |-> period]

Max(a, b) == IF a > b THEN a ELSE b

SetMin(S) == CHOOSE m \in S : \A n \in S : m <= n

RECURSIVE Filter(_, _)
\* Array.prototype.filter with the predicate given as the set of ids to keep
Filter(seq, keep) ==
    IF seq = <<>> THEN <<>>
    ELSE IF Head(seq).id \in keep
         THEN <<Head(seq)>> \o Filter(Tail(seq), keep)
         ELSE Filter(Tail(seq), keep)

Ids(seq) == {seq[i].id : i \in 1..Len(seq)}

(* ------------- IEEE-754 double arithmetic of the accuracy -------------- *)
(* Math.round((h / t) * 100) for integers 0 <= h <= t, 0 < t, computed as  *)
(* JavaScript computes it: h / t is rounded to a double (53-bit            *)
(* significand, round to nearest, ties to even), the product with 100 is   *)
(* rounded to a double again, and Math.round takes floor(y + 0.5).  The    *)
(* 53-bit significands are not held as integers; the binary long division  *)
(* keeps the remainder and the low 8 bits of the quotient, which decide    *)
(* both roundings and the sign of the error of the product.                *)

RECURSIVE Pow2(_)
Pow2(n) == IF n = 0 THEN 1 ELSE 2 * Pow2(n - 1)

RECURSIVE BinaryExponent(_, _, _)
\* least s with h * 2^s >= t: the double h / t has binary exponent -s
BinaryExponent(h, t, s) == IF h >= t THEN s ELSE BinaryExponent(2 * h, t, s + 1)

RECURSIVE DivBits(_, _, _, _)
\* binary long division of rem / t carried on for n more bits (eight bits
\* at a time while eight remain): remainder and the low 8 bits of the
\* quotient
DivBits(rem, low, t, n) ==
    IF n = 0 THEN [rem |-> rem, low |-> low]
    ELSE IF n >= 8
    THEN DivBits((256 * rem) % t, ((256 * rem) \div t) % 256, t, n - 8)
    ELSE LET bit == IF 2 * rem >= t THEN 1 ELSE 0
         IN  DivBits(2 * rem - t * bit, (2 * low + bit) % 256, t, n - 1)

\* the double h / t (0 < h < t): low 8 bits of its significand M and
\* err = t * (M - h * 2^(52+s) / t), the signed rounding error times t
DoubleDiv(h, t) ==
    LET s == BinaryExponent(h, t, 0)
        d == DivBits(h, 0, t, 52 + s)
        up == 2 * d.rem > t \/ (2 * d.rem = t /\ d.low % 2 = 1)
    IN  [exp |-> s,
         low |-> IF up THEN (d.low + 1) % 256 ELSE d.low,
         err |-> IF up THEN t - d.rem ELSE 0 - d.rem]

\* sign information of fl(fl(h / t) * 100) - 100 * h / t: the value
\* returned has the sign of that difference (times a positive factor)
DoubleTimes100Err(h, t) ==
    LET q    == DoubleDiv(h, t)
        D    == 100 * h * Pow2(q.exp) - 128 * t
        j    == IF D < 0 \/ (D = 0 /\ q.err < 0) THEN 6 ELSE 7
        plow == (100 * q.low) % Pow2(j + 1)
        frac == plow % Pow2(j)
        bitj == plow \div Pow2(j)
        half == Pow2(j - 1)
        e1   == IF frac > half \/ (frac = half /\ bitj = 1)
                THEN Pow2(j) - frac ELSE 0 - frac
    IN  e1 * t + 100 * q.err

\* Math.round((h / t) * 100)
MathRoundPercent(h, t) ==
    IF h = 0 THEN 0
    ELSE IF h = t THEN 100
    ELSE LET a == (200 * h + t) \div (2 * t)
         IN  IF (200 * h + t) % (2 * t) = 0 /\ DoubleTimes100Err(h, t) < 0
             THEN a - 1 ELSE a

(* --------------------------- statistics -------------------------------- *)
\* HitStats with the bonus taken from the combo after its increment
HitStatsBonusAfter(prev, c) ==
    LET newHits == prev.hits + 1
        total   == newHits + prev.misses
    IN  [score    |-> prev.score + BaseScore + (c + 1) * ComboBonus,
         hits     |-> newHits,
         misses   |-> prev.misses,
         accuracy |-> IF total > 0 THEN MathRoundPercent(newHits, total) ELSE 0]

\* HitStats with the accuracy taken from the hits before their increment
HitStatsStaleHits(prev, c) ==
    LET newHits == prev.hits + 1
        total   == newHits + prev.misses
    IN  [score    |-> prev.score + BaseScore + c * ComboBonus,
         hits     |-> newHits,
         misses   |-> prev.misses,
         accuracy |-> IF total > 0 THEN MathRoundPercent(prev.hits, total) ELSE 0]

\* hitTarget's setStats updater; c is the combo captured by the callback
HitStats(prev, c) ==
    LET newHits == prev.hits + 1
        total   == newHits + prev.misses
    IN  [score    |-> prev.score + BaseScore + c * ComboBonus,
         hits     |-> newHits,
         misses   |-> prev.misses,
         accuracy |-> IF total > 0 THEN MathRoundPercent(newHits, total) ELSE 0]

\* handleMiss's setStats updater
MissStats(prev) ==
    LET newMisses == prev.misses + 1
        total     == prev.hits + newMisses
    IN  [score    |-> prev.score,
         hits     |-> prev.hits,
         misses   |-> newMisses,
         accuracy |-> IF total > 0 THEN MathRoundPercent(prev.hits, total) ELSE 0]

\* hitTarget's setCombo updater
HitCombo(prev) == prev + 1

\* HitMaxCombo that never calls setMaxCombo
HitMaxComboNever(newCombo, mc) == mc

\* the setMaxCombo call inside hitTarget's setCombo updater; mc is the
\* maxCombo captured by the callback
HitMaxCombo(newCombo, mc) == IF newCombo > mc THEN newCombo ELSE mc

ZeroStats == [score |-> 0, hits |-> 0, misses |-> 0, accuracy |-> 0]

\* spawnInterval with the time left taken for the time elapsed
spawnIntervalByTimeLeft(tl) ==
    Max(MinSpawnInterval, MaxSpawnInterval - tl * SpawnAcceleration)

\* period of the spawn interval armed for a given timeLeft
spawnInterval(tl) ==
    Max(MinSpawnInterval, MaxSpawnInterval - (SessionSeconds - tl) * SpawnAcceleration)

(* ----------------------------- state ----------------------------------- *)
Init ==
    /\ gameState = "menu"
    /\ targets = <<>>
    /\ stats = ZeroStats
    /\ timeLeft = SessionSeconds
    /\ combo = 0
    /\ maxCombo = 0
    /\ targetIdRef = 0
    /\ timerRef = NoTimer
    /\ spawnRef = NoTimer
    /\ cleanup = NoTimer
    /\ timeouts = <<>>

(* ---------------------------- handlers --------------------------------- *)
\* the setTimeout(spawnTarget, i * 300), i = 0, 1, 2, of the initial-spawn
\* effect: the milliseconds until each fires, in the order they are armed
InitialTimeouts == [i \in 1..InitialSpawns |-> (i - 1) * InitialSpawnGap]

\* startGame (START TRAINING in menu, Play Again in ended) and the effects
\* that run because gameState became playing
startGame ==
    /\ gameState \in {"menu", "ended"}
    /\ gameState' = "playing"
    /\ stats' = ZeroStats
    /\ timeLeft' = SessionSeconds
    /\ combo' = 0
    /\ maxCombo' = 0
    /\ targets' = <<>>
    /\ targetIdRef' = 0
    /\ timerRef' = setInterval(ClockPeriod)
    /\ spawnRef' = setInterval(spawnInterval(SessionSeconds))
    /\ cleanup' = setInterval(CleanupPeriod)
    /\ timeouts' = timeouts \o InitialTimeouts

\* endGame without setTargets([])
endGameKeepsTargets ==
    /\ gameState' = "ended"
    /\ targets' = targets
    /\ timerRef' = NoTimer
    /\ spawnRef' = NoTimer
    /\ cleanup' = NoTimer

\* endGame's state updates and clearInterval calls, and the cleanup of the
\* expiry effect that the change of gameState runs
endGame ==
    /\ gameState' = "ended"
    /\ targets' = <<>>
    /\ timerRef' = NoTimer
    /\ spawnRef' = NoTimer
    /\ cleanup' = NoTimer

\* the End button, rendered only while playing
endNow ==
    /\ gameState = "playing"
    /\ endGame
    /\ UNCHANGED <<stats, timeLeft, combo, maxCombo, targetIdRef, timeouts>>

\* returnToMenu with the button rendered while playing as well
returnToMenuWhilePlaying ==
    /\ gameState \in {"playing", "ended"}
    /\ gameState' = "menu"
    /\ UNCHANGED <<targets, stats, timeLeft, combo, maxCombo, targetIdRef,
                   timerRef, spawnRef, cleanup, timeouts>>

\* the Main Menu button, rendered only while ended
returnToMenu ==
    /\ gameState = "ended"
    /\ gameState' = "menu"
    /\ UNCHANGED <<targets, stats, timeLeft, combo, maxCombo, targetIdRef,
                   timerRef, spawnRef, cleanup, timeouts>>

\* hitTarget without e.stopPropagation(): the click also reaches the onClick
\* of the game area
hitTargetPropagates(targetId) ==
    /\ gameState = "playing"
    /\ targetId \in Ids(targets)
    /\ targets' = Filter(targets, Ids(targets) \ {targetId})
    /\ stats' = MissStats(HitStats(stats, combo))
    /\ combo' = 0
    /\ maxCombo' = HitMaxCombo(HitCombo(combo), maxCombo)
    /\ UNCHANGED <<gameState, timeLeft, targetIdRef, timerRef, spawnRef,
                   cleanup, timeouts>>

\* click on a rendered target (targets are rendered only while playing)
hitTarget(targetId) ==
    /\ gameState = "playing"
    /\ targetId \in Ids(targets)
    /\ targets' = Filter(targets, Ids(targets) \ {targetId})
    /\ stats' = HitStats(stats, combo)
    /\ combo' = HitCombo(combo)
    /\ maxCombo' = HitMaxCombo(HitCombo(combo), maxCombo)
    /\ UNCHANGED <<gameState, timeLeft, targetIdRef, timerRef, spawnRef,
                   cleanup, timeouts>>

\* handleMiss without setCombo(0)
handleMissKeepsCombo ==
    /\ gameState = "playing"
    /\ stats' = MissStats(stats)
    /\ combo' = combo
    /\ UNCHANGED <<gameState, targets, timeLeft, maxCombo, targetIdRef,
                   timerRef, spawnRef, cleanup, timeouts>>

\* click on the empty game area; the handler is attached only while playing
handleMiss ==
    /\ gameState = "playing"
    /\ stats' = MissStats(stats)
    /\ combo' = 0
    /\ UNCHANGED <<gameState, targets, timeLeft, maxCombo, targetIdRef,
                   timerRef, spawnRef, cleanup, timeouts>>

\* spawnTarget with targetIdRef.current read but not incremented
spawnTargetNoIncrement ==
    /\ targets' = Append(targets, [id |-> targetIdRef, age |-> 0])
    /\ targetIdRef' = targetIdRef

\* spawnTarget: id is targetIdRef.current++, createdAt is now
spawnTarget ==
    /\ targets' = Append(targets, [id |-> targetIdRef, age |-> 0])
    /\ targetIdRef' = targetIdRef + 1

(* ------------------------- timer callbacks ----------------------------- *)
\* a clock tick that counts two seconds
timerTickCountsTwo ==
    /\ timerRef.due = 0
    /\ IF timeLeft <= 1
       THEN /\ endGame
            /\ timeLeft' = 0
            /\ UNCHANGED targetIdRef
       ELSE /\ timeLeft' = Max(timeLeft - 2, 1)
            /\ timerRef' = setInterval(ClockPeriod)
            /\ spawnRef' = setInterval(spawnInterval(timeLeft - 1))
            /\ UNCHANGED <<gameState, targets, targetIdRef, cleanup>>
    /\ UNCHANGED <<stats, combo, maxCombo, timeouts>>

\* a clock tick that ends the session one tick late (prev <= 0)
timerTickLate ==
    /\ timerRef.due = 0
    /\ IF timeLeft <= 0
       THEN /\ endGame
            /\ timeLeft' = 0
            /\ UNCHANGED targetIdRef
       ELSE /\ timeLeft' = timeLeft - 1
            /\ timerRef' = setInterval(ClockPeriod)
            /\ spawnRef' = setInterval(spawnInterval(timeLeft - 1))
            /\ UNCHANGED <<gameState, targets, targetIdRef, cleanup>>
    /\ UNCHANGED <<stats, combo, maxCombo, timeouts>>

\* a clock tick that also resets the combo
timerTickResetsCombo ==
    /\ timerRef.due = 0
    /\ IF timeLeft <= 1
       THEN /\ endGame
            /\ timeLeft' = 0
            /\ UNCHANGED targetIdRef
       ELSE /\ timeLeft' = timeLeft - 1
            /\ timerRef' = setInterval(ClockPeriod)
            /\ spawnRef' = setInterval(spawnInterval(timeLeft - 1))
            /\ UNCHANGED <<gameState, targets, targetIdRef, cleanup>>
    /\ combo' = 0
    /\ UNCHANGED <<stats, maxCombo, timeouts>>

\* the 1000 ms interval of the clock effect; a change of timeLeft re-runs
\* the effect, which clears and re-arms the clock and the spawn interval
timerTick ==
    /\ timerRef.due = 0
    /\ IF timeLeft <= 1
       THEN /\ endGame
            /\ timeLeft' = 0
            /\ UNCHANGED targetIdRef
       ELSE /\ timeLeft' = timeLeft - 1
            /\ timerRef' = setInterval(ClockPeriod)
            /\ spawnRef' = setInterval(spawnInterval(timeLeft - 1))
            /\ UNCHANGED <<gameState, targets, targetIdRef, cleanup>>
    /\ UNCHANGED <<stats, combo, maxCombo, timeouts>>

\* the spawn interval
spawnTick ==
    /\ spawnRef.due = 0
    /\ spawnTarget
    /\ spawnRef' = [spawnRef EXCEPT !.due = spawnRef.period]
    /\ UNCHANGED <<gameState, stats, timeLeft, combo, maxCombo, timerRef,
                   cleanup, timeouts>>

\* an expiry tick that keeps a target of age exactly 3000 ms
cleanupTickKeepsLifetime ==
    /\ cleanup.due = 0
    /\ targets' = Filter(targets,
                         {targets[i].id : i \in {k \in 1..Len(targets) :
                                                   targets[k].age <= TargetLifetime}})
    /\ cleanup' = [cleanup EXCEPT !.due = cleanup.period]
    /\ UNCHANGED <<gameState, stats, timeLeft, combo, maxCombo, targetIdRef,
                   timerRef, spawnRef, timeouts>>

\* the 100 ms interval of the expiry effect
cleanupTick ==
    /\ cleanup.due = 0
    /\ targets' = Filter(targets,
                         {targets[i].id : i \in {k \in 1..Len(targets) :
                                                   targets[k].age < TargetLifetime}})
    /\ cleanup' = [cleanup EXCEPT !.due = cleanup.period]
    /\ UNCHANGED <<gameState, stats, timeLeft, combo, maxCombo, targetIdRef,
                   timerRef, spawnRef, timeouts>>

\* one of the setTimeout(spawnTarget, i * 300) callbacks; nothing cancels it
initialSpawn(i) ==
    /\ i \in 1..Len(timeouts)
    /\ timeouts[i] = 0
    /\ spawnTarget
    /\ timeouts' = SubSeq(timeouts, 1, i - 1) \o SubSeq(timeouts, i + 1, Len(timeouts))
    /\ UNCHANGED <<gameState, stats, timeLeft, combo, maxCombo, timerRef,
                   spawnRef, cleanup>>

(* ------------------------------ time ----------------------------------- *)
\* milliseconds until each armed timer fires
Dues ==
    {iv.due : iv \in {x \in {timerRef, spawnRef, cleanup} : x.due >= 0}}
        \cup {timeouts[i] : i \in 1..Len(timeouts)}

Elapse(iv, d) == IF iv.due >= 0 THEN [iv EXCEPT !.due = @ - d] ELSE iv

\* time passes until the next armed timer is due
Advance ==
    /\ Dues # {}
    /\ 0 \notin Dues
    /\ LET d == SetMin(Dues)
       IN  /\ timerRef' = Elapse(timerRef, d)
           /\ spawnRef' = Elapse(spawnRef, d)
           /\ cleanup' = Elapse(cleanup, d)
           /\ timeouts' = [i \in 1..Len(timeouts) |-> timeouts[i] - d]
           /\ targets' = [i \in 1..Len(targets) |->
                            [targets[i] EXCEPT !.age = @ + d]]
    /\ UNCHANGED <<gameState, stats, timeLeft, combo, maxCombo, targetIdRef>>

\* time passes while no timer is armed (menu or ended): a second goes by;
\* only the age Date.now() - createdAt of the targets still held changes
Wait ==
    /\ Dues = {}
    /\ targets # <<>>
    /\ \A i \in 1..Len(targets) : targets[i].age <= MaxIdleAge
    /\ targets' = [i \in 1..Len(targets) |->
                     [targets[i] EXCEPT !.age = @ + ClockPeriod]]
    /\ UNCHANGED <<gameState, stats, timeLeft, combo, maxCombo, targetIdRef,
                   timerRef, spawnRef, cleanup, timeouts>>

(* ------------------------- specification ------------------------------- *)
StartBudget == Len(timeouts) + InitialSpawns <= MaxPending

ClickBudget == stats.hits + stats.misses < MaxClicks

Next ==
    \/ (StartBudget /\ startGame)
    \/ endNow
    \/ returnToMenu
    \/ \E id \in Ids(targets) : ClickBudget /\ hitTarget(id)
    \/ (ClickBudget /\ handleMiss)
    \/ timerTick
    \/ spawnTick
    \/ cleanupTick
    \/ \E i \in 1..Len(timeouts) : initialSpawn(i)
    \/ Advance
    \/ Wait

Spec == Init /\ [][Next]_vars

\* the timers fire: a callback that is due runs, and time passes while a
\* timer is armed (the browser's event loop does not starve a due timer)
FairSpec ==
    /\ Spec
    /\ WF_vars(timerTick)
    /\ WF_vars(spawnTick)
    /\ WF_vars(cleanupTick)
    /\ WF_vars(\E i \in 1..Len(timeouts) : initialSpawn(i))
    /\ WF_vars(Advance)

TypeOK ==
    /\ gameState \in {"menu", "playing", "ended"}
    /\ timeLeft \in 0..SessionSeconds
    /\ combo \in Nat /\ maxCombo \in Nat /\ targetIdRef \in Nat
    /\ Len(timeouts) <= MaxPending

(* ---------------- specification of the statistics alone ---------------- *)
(* Spec explores MaxClicks clicks per session.  SpecStats explores the     *)
(* click handlers on longer click histories: it starts half way through a  *)
(* session, in the state Spec reaches right after the clock tick to        *)
(* timeLeft = 30 (32 targets spawned so far, the three youngest still on   *)
(* screen), after the player has missed m times and then hit h of the      *)
(* earlier targets in a row, and goes on with hits and misses.             *)

\* stats after m misses followed by h hits: the hits were taken at combo
\* 0 .. h-1 and score 100 + 10c each, the last updater set the accuracy
StatsAfter(m, h) ==
    [score    |-> h * BaseScore + ComboBonus * ((h * (h - 1)) \div 2),
     hits     |-> h,
     misses   |-> m,
     accuracy |-> IF h + m > 0 THEN MathRoundPercent(h, h + m) ELSE 0]

InitStats ==
    /\ gameState = "playing"
    /\ timeLeft = 30
    /\ targets = <<[id |-> 29, age |-> 2270], [id |-> 30, age |-> 1280],
                   [id |-> 31, age |-> 290]>>
    /\ targetIdRef = 32
    /\ timerRef = setInterval(ClockPeriod)
    /\ spawnRef = setInterval(spawnInterval(30))
    /\ cleanup = setInterval(CleanupPeriod)
    /\ timeouts = <<>>
    /\ \E m \in 0..MaxStatMisses, h \in 0..(MaxStatHits - 1) :
          /\ stats = StatsAfter(m, h)
          /\ combo = h
          /\ maxCombo = h

NextStats ==
    \/ \E id \in Ids(targets) : stats.hits < MaxStatHits /\ hitTarget(id)
    \/ (stats.misses < MaxStatMisses /\ handleMiss)

SpecStats == InitStats /\ [][NextStats]_vars

(* ------------------------------ claims --------------------------------- *)
\* a step that starts a session (startGame)
StartStep == gameState # "playing" /\ gameState' = "playing"

\* a step in which some timer callback runs
TimerCallbackStep ==
    \/ timerTick
    \/ spawnTick
    \/ cleanupTick
    \/ \E i \in 1..Len(timeouts) : initialSpawn(i)

\* C1: whenever the session state is menu or ended, the target collection
\* is empty.
C1_NoTargetsOutsidePlaying ==
    gameState \in {"menu", "ended"} => targets = <<>>

\* C2: every timer armed by a session is cancelled when the session leaves
\* playing: while the state is ended no timer is armed any more and no timer
\* callback runs.
C2_TimersCancelledOnExit ==
    [][gameState = "ended" => (Dues' = {} /\ ~TimerCallbackStep)]_vars

\* C3: a hit taken at combo c adds exactly 100 + 10c to the score; every
\* other step of a session, a miss included, leaves the score unchanged (the
\* start of a session sets it to 0).
C3_ScoreOnlyByHits ==
    [][IF stats'.hits = stats.hits + 1
       THEN stats'.score = stats.score + 100 + 10 * combo
       ELSE IF StartStep
            THEN stats'.score = 0
            ELSE stats'.score = stats.score]_vars

\* C3 witness: miss, hit, hit: the second hit was taken at combo 1.
C3_Witness ==
    stats.hits = 2 /\ stats.misses = 1 /\ combo = 2 /\ stats.score = 210

\* C4 as stated: after the first hit of a session score = 110, hits = 1,
\* misses = 0, accuracy = 100; after hit, miss, hit score = 220, hits = 2,
\* accuracy = 67.
C4_ScenarioAsStated ==
    /\ (stats.hits = 1 /\ stats.misses = 0)
          => (stats.score = 110 /\ stats.accuracy = 100)
    /\ (stats.hits = 2 /\ stats.misses = 1 /\ combo = 1)
          => (stats.score = 220 /\ stats.accuracy = 67)

\* C4 amended: after the first hit of a session score = 100, hits = 1,
\* misses = 0, accuracy = 100; after hit, miss, hit score = 200, hits = 2,
\* accuracy = 67.
C4_ScenarioAmended ==
    /\ (stats.hits = 1 /\ stats.misses = 0)
          => (stats.score = 100 /\ stats.accuracy = 100)
    /\ (stats.hits = 2 /\ stats.misses = 1 /\ combo = 1)
          => (stats.score = 200 /\ stats.accuracy = 67)

\* C4 witness: the state after hit, miss, hit.
C4_Witness ==
    stats.hits = 2 /\ stats.misses = 1 /\ combo = 1 /\ maxCombo = 1

\* C5: after every hit or miss, accuracy is hits / (hits + misses) * 100
\* rounded half up (accuracy - 1/2 <= 100 * hits / total < accuracy + 1/2),
\* and it is 0 when hits + misses is 0.
C5_AccuracyIsRounded ==
    LET total == stats.hits + stats.misses
    IN  IF total = 0
        THEN stats.accuracy = 0
        ELSE /\ 2 * total * stats.accuracy - total <= 200 * stats.hits
             /\ 200 * stats.hits < 2 * total * stats.accuracy + total

\* C6: combo is never negative, every miss sets it to 0 and every hit sets
\* it to its value before the hit plus 1.
C6_ComboSteps ==
    /\ [](combo >= 0)
    /\ [][/\ (stats'.misses = stats.misses + 1) => (combo' = 0)
          /\ (stats'.hits = stats.hits + 1) => (combo' = combo + 1)]_vars

\* C6 witness: miss, miss, hit.
C6_Witness ==
    stats.misses = 2 /\ stats.hits = 1 /\ combo = 1

\* C7: within a session maxCombo never decreases and is the high-water mark
\* of combo: it starts at 0 with combo, every step leaves it at the larger of
\* its old value and the new combo, so it is never below combo.
C7_MaxComboHighWater ==
    /\ [](maxCombo >= combo)
    /\ [][IF StartStep
          THEN maxCombo' = 0 /\ combo' = 0
          ELSE /\ maxCombo' >= maxCombo
               /\ maxCombo' = (IF combo' > maxCombo THEN combo' ELSE maxCombo)]_vars

\* C7 witness: hit, hit, miss: combo is back at 0, maxCombo still 2.
C7_Witness ==
    gameState = "playing" /\ maxCombo = 2 /\ combo = 0 /\ stats.misses = 1

\* C8: the session state moves only menu -> playing, playing -> ended,
\* ended -> playing and ended -> menu.
C8_Transitions ==
    [][\/ gameState' = gameState
       \/ <<gameState, gameState'>> \in {<<"menu", "playing">>,
                                         <<"playing", "ended">>,
                                         <<"ended", "playing">>,
                                         <<"ended", "menu">>}]_vars

\* C8 witness: back in menu after a session that the clock ended.
C8_Witness ==
    gameState = "menu" /\ timeLeft = 0

\* C9: the clock tick that brings timeLeft to 0 while targets remain moves
\* to ended, clears the targets and leaves stats and maxCombo as they were;
\* they do not change while the state stays ended or menu.
C9_FinalTickKeepsStats ==
    [][/\ (timeLeft = 1 /\ timeLeft' = 0 /\ targets # <<>>)
            => /\ gameState' = "ended"
               /\ targets' = <<>>
               /\ stats' = stats
               /\ maxCombo' = maxCombo
       /\ (gameState \in {"ended", "menu"} /\ gameState' \in {"ended", "menu"})
            => (stats' = stats /\ maxCombo' = maxCombo)]_vars

\* C9 witness: a session with hits and a miss that the clock has ended.
C9_Witness ==
    /\ gameState = "menu"
    /\ timeLeft = 0
    /\ targets = <<>>
    /\ stats.hits = 2 /\ stats.misses = 1 /\ maxCombo = 2

\* C10: a restart from ended gives the state of a fresh start: zero stats,
\* timeLeft 60, combo and maxCombo 0, no targets, id counter 0, and only the
\* timers that this start arms.
C10_RestartIsFreshStart ==
    [][(gameState = "ended" /\ gameState' = "playing")
          => /\ stats' = ZeroStats
             /\ timeLeft' = 60
             /\ combo' = 0 /\ maxCombo' = 0
             /\ targets' = <<>>
             /\ targetIdRef' = 0
             /\ timerRef' = setInterval(1000)
             /\ spawnRef' = setInterval(1000)
             /\ cleanup' = setInterval(100)
             /\ timeouts' = <<0, 300, 600>>]_vars

\* a step of the expiry interval's callback
ExpiryStep == cleanup.due = 0 /\ cleanup'.due = 100

\* C11: after a tick of the expiry watcher no target of age >= 3000 ms is
\* left in the collection, and no target in the collection is ever older
\* than 3100 ms.
C11_NoOldTargets ==
    /\ [](\A i \in 1..Len(targets) : targets[i].age <= 3100)
    /\ [][ExpiryStep => \A i \in 1..Len(targets') : targets'[i].age < 3000]_vars

\* C11 while playing: the part of C11 that the expiry watcher guarantees.
PlayingNoOldTargets ==
    gameState = "playing" => \A i \in 1..Len(targets) : targets[i].age <= 3100

\* C12: a target that is created is appended at the end with the id the
\* counter holds, above every id assigned earlier in the session; the counter
\* only grows within a session, so the collection always holds pairwise
\* distinct ids in strictly increasing order.
C12_IdsIncreasing ==
    /\ [](\A i \in 1..Len(targets) :
             /\ targets[i].id < targetIdRef
             /\ i < Len(targets) => targets[i].id < targets[i + 1].id)
    /\ [][/\ StartStep \/ targetIdRef' >= targetIdRef
          /\ Len(targets') = Len(targets) + 1
                => /\ SubSeq(targets', 1, Len(targets)) = targets
                   /\ targets'[Len(targets')].id = targetIdRef
                   /\ targetIdRef' = targetIdRef + 1]_vars

\* C12 witness: three targets on screen with a gap in their ids (a target
\* between them was hit).
C12_Witness ==
    /\ gameState = "playing"
    /\ Len(targets) = 3
    /\ targets[1].id + 1 < targets[2].id

\* C13: the period of the spawn interval armed at a given timeLeft is
\* max(400, 1000 - (60 - timeLeft) * 10) ms: 1000 ms at timeLeft = 60, never
\* larger for a smaller timeLeft, never below 400 ms for timeLeft in 0..60.
C13_SpawnPeriod ==
    /\ [](spawnRef.due >= 0 =>
             /\ spawnRef.period = (IF 1000 - (60 - timeLeft) * 10 > 400
                                   THEN 1000 - (60 - timeLeft) * 10 ELSE 400)
             /\ spawnRef.period >= 400
             /\ timeLeft = 60 => spawnRef.period = 1000)
    /\ [](/\ spawnInterval(timeLeft) >= 400
          /\ timeLeft = 60 => spawnInterval(timeLeft) = 1000
          /\ timeLeft >= 1 =>
                /\ spawnInterval(timeLeft - 1) >= 400
                /\ spawnInterval(timeLeft - 1) <= spawnInterval(timeLeft))
    /\ [][(spawnRef.due >= 0 /\ spawnRef'.due >= 0 /\ timeLeft' < timeLeft)
             => spawnRef'.period <= spawnRef.period]_vars

\* C13 witness: half way through a session the interval is armed with 700 ms.
C13_Witness ==
    gameState = "playing" /\ timeLeft = 30 /\ spawnRef.period = 700

\* the invariants of the data model
DataInvariant ==
    /\ \A i \in 1..Len(targets) :
          /\ targets[i].id < targetIdRef
          /\ i < Len(targets) => targets[i].id < targets[i + 1].id
    /\ stats.score >= 0 /\ stats.hits >= 0 /\ stats.misses >= 0
    /\ stats.accuracy \in 0..100
    /\ combo >= 0 /\ maxCombo >= combo
    /\ timeLeft \in 0..60
    /\ gameState = "playing" => timeLeft >= 1

\* at least two of the armed timers are due at this instant
SeveralDue ==
    Cardinality({n \in {"timer", "spawn", "cleanup", "timeout"} :
                   \/ n = "timer" /\ timerRef.due = 0
                   \/ n = "spawn" /\ spawnRef.due = 0
                   \/ n = "cleanup" /\ cleanup.due = 0
                   \/ n = "timeout" /\ 0 \in {timeouts[i] : i \in 1..Len(timeouts)}})
        >= 2

C15_ClockEndsSession ==
    /\ [][timerTick =>
             /\ gameState = "playing"
             /\ IF timeLeft > 1
                THEN timeLeft' = timeLeft - 1 /\ gameState' = "playing"
                ELSE timeLeft' = 0 /\ gameState' = "ended"]_vars
    /\ [][timeLeft' # timeLeft =>
             \/ timerTick
             \/ StartStep /\ timeLeft' = 60]_vars
    /\ [][(gameState = "playing" /\ gameState' # "playing") =>
             /\ gameState' = "ended"
             /\ \/ timerTick /\ timeLeft = 1 /\ timeLeft' = 0
                \/ timeLeft' = timeLeft /\ timeLeft >= 1]_vars
    /\ (gameState = "playing") ~> (gameState = "ended")

\* C15 witness: a session has ended on its 60th tick.
C15_Witness ==
    gameState = "ended" /\ timeLeft = 0

\* C16: while playing, the gap between two consecutive spawns of the spawn
\* interval is never longer than the gap before it. (More than 4 s into the
\* session every target on screen was created by the spawn interval: the
\* start-up timeouts fire within 600 ms of a start and targets live about
\* 3 s.)
C16_SpawnGapsShorten ==
    (gameState = "playing" /\ timeLeft <= 56) =>
        \A i \in 1..(Len(targets) - 2) :
            (/\ targets[i + 1].id = targets[i].id + 1
             /\ targets[i + 2].id = targets[i + 1].id + 1)
                => targets[i + 1].age - targets[i + 2].age
                      <= targets[i].age - targets[i + 1].age

\* a click that is counted as a hit
HitStep == stats'.hits = stats.hits + 1

\* C17: a hit removes exactly one target, the one with the clicked id, and
\* leaves every other target and their order unchanged; it adds 1 to hits
\* and leaves misses and timeLeft unchanged; the same click is not counted
\* as a miss and does not reset the combo.
C17_HitFrame ==
    [][HitStep =>
          /\ \E k \in 1..Len(targets) :
                /\ Len(targets') = Len(targets) - 1
                /\ \A i \in 1..Len(targets') :
                      targets'[i] = targets[IF i < k THEN i ELSE i + 1]
                /\ targets[k].id \notin {targets'[i].id : i \in 1..Len(targets')}
          /\ stats'.misses = stats.misses
          /\ timeLeft' = timeLeft
          /\ combo' = combo + 1
          /\ gameState' = gameState]_vars

\* C17 witness: of three targets the middle one has been hit, the other two
\* remain in order, and no miss is counted.
C17_Witness ==
    /\ stats.hits = 1
    /\ stats.misses = 0
    /\ combo = 1
    /\ Len(targets) = 2
    /\ targets[1].id = 0
    /\ targets[2].id = 2

\* C18: an expiry tick removes exactly the targets of age >= 3000 ms, keeps
\* the younger ones in their order, and leaves the stats, combo, maxCombo,
\* timeLeft and the session state unchanged.
C18_ExpiryFrame ==
    [][ExpiryStep =>
          /\ targets' = SelectSeq(targets, LAMBDA t : t.age < 3000)
          /\ UNCHANGED <<stats, combo, maxCombo, timeLeft, gameState>>]_vars

\* C18 witness: the oldest target has expired unhit (the first target left
\* is not the first one spawned) with no miss counted.
C18_Witness ==
    /\ gameState = "playing"
    /\ stats.hits = 0
    /\ stats.misses = 0
    /\ targets # <<>>
    /\ targets[1].id >= 1

\* C19: timeLeft is always within 0..60, and within 1..60 while playing, so
\* the spawn period armed during play is at least 410 ms and the 400 ms floor
\* is not the binding term.
C19_TimeLeftRange ==
    /\ timeLeft >= 0
    /\ timeLeft <= 60
    /\ gameState = "playing" =>
          /\ timeLeft >= 1
          /\ spawnRef.due >= 0
          /\ spawnRef.period >= 410
          /\ spawnRef.period = 1000 - (60 - timeLeft) * 10
          /\ 1000 - (60 - timeLeft) * 10 > 400

\* C19 witness: the last second of play, with the shortest period armed.
C19_Witness ==
    gameState = "playing" /\ timeLeft = 1 /\ spawnRef.period = 410

====
